---- MODULE Spec2Model ----
(***************************************************************************)
(* Model of codex-rs/mcp-types/check_lib_rs.py: the launcher picks an      *)
(* interpreter that is at least Python 3.10 (the running one, or the first *)
(* candidate on the search path whose probe exits 0), runs the generator   *)
(* script with --check under it, and exits with the generator's status.    *)
(*                                                                         *)
(* The environment (which binary sits at which path, what each candidate   *)
(* name resolves to, which interpreter is running) is fixed in Init.       *)
(* subprocess.run is modelled in its three observable steps: the child is  *)
(* spawned (or the spawn raises OSError), the child exits, the call        *)
(* returns the completed process.                                          *)
(***************************************************************************)
EXTENDS Integers, Sequences, FiniteSets

\* ---------------------------------------------------------------- bounds
\* Signals 1..MaxSignal may kill the generator child (returncode -signal).
MaxSignal == 2

\* ------------------------------------------------------- program constants
MIN_VERSION == <<3, 10>>

CandidateList == <<"python3.12", "python3.11", "python3.10", "python3">>

\* The version literal inside the probe's inline script.
ProbeThreshold == <<3, 10>>

\* --------------------------------------------------------- the environment
None == "None"

\* A returncode or exit status that is not there yet, and one that is.
NoCode == <<>>

Code(rc) == <<rc>>

\* Absolute paths at which an interpreter binary may be installed.
Paths == {"/usr/bin/python3", "/usr/local/bin/python3", "/opt/py/bin/python3"}

\* Where the running interpreter is installed (the paths are interchangeable,
\* so one choice stands for all).
RunningPath == "/usr/bin/python3"

\* (major, minor) of the interpreters that may be installed.
Versions == {<<3, 9>>, <<3, 10>>, <<4, 0>>}

CandidateNames == {CandidateList[k] : k \in 1..Len(CandidateList)}

\* What a child of subprocess.run can report for the opaque generator:
\* an exit status 0..255, or -signal when a signal killed it.
GenReturnCodes == (0..255) \cup {-s : s \in 1..MaxSignal}

VARIABLES
    sysExecutable,  \* sys.executable
    pathVersion,    \* the version of the binary installed at each path
    whichMap,       \* shutil.which: candidate name -> path or None
    pc,             \* position of the launcher
    idx,            \* position of the for loop in CandidateList
    python_exe,     \* result of python_for_generator(), None until it returns
    result,         \* returncode of the child being run, None until it exits
    alive,          \* child processes that were spawned and have not exited
    spawned,        \* history: every child spawned, in spawn order
    probeRc,        \* history: returncode of the probe of each candidate
    error,          \* the uncaught exception that ended the run, or None
    exitStatus      \* exit status of the launcher, None while it runs

vars == <<sysExecutable, pathVersion, whichMap, pc, idx, python_exe, result,
          alive, spawned, probeRc, error, exitStatus>>

env == <<sysExecutable, pathVersion, whichMap>>

\* ----------------------------------------------------------------- helpers
\* Python's tuple comparison v >= m on (major, minor) prefixes.
TupleGEComponentwise(v, m) == v[1] >= m[1] /\ v[2] >= m[2]
TupleGE(v, m) == v[1] > m[1] \/ (v[1] = m[1] /\ v[2] >= m[2])

\* sys.version_info of the running interpreter.
version_info == pathVersion[sysExecutable]

version_ok == TupleGE(version_info, MIN_VERSION)

which(candidate) == whichMap[candidate]

\* line 21: `if not path or path == sys.executable: continue`
SkipCandidateUnresolvedOnly(path) == path = None
SkipCandidate(path) == path = None \/ path = sysExecutable

\* The inline probe script: exit(0 if sys.version_info >= (3, 10) else 1)
ProbeScriptExit(path) ==
    IF TupleGE(pathVersion[path], ProbeThreshold) THEN 0 ELSE 1

\* line 28: `if result.returncode == 0`
ProbeAcceptsAnyExit(rc) == rc # NoCode
ProbeAccepts(rc) == rc = Code(0)

\* The for loop moves on to the next candidate.
NextCandidateRetry(k) == k
NextCandidate(k) == k + 1

\* subprocess.run returns only once its child has exited.
RunReturnsNoWait(child) == TRUE
RunReturns(child) == child \notin alive

\* raise SystemExit(n): the status the operating system reports, the low
\* eight bits of n (SystemExit(None) is status 0).
SystemExitStatusBool(rc) == IF rc \in {NoCode, Code(0)} THEN 0 ELSE 1
SystemExitStatus(rc) == IF rc = NoCode THEN 0 ELSE rc[1] % 256

\* An uncaught exception ends the interpreter with status 1.
UncaughtExceptionStatus == 1

ProbeChild(k) ==
    [kind |-> "probe", cand |-> k, exe |-> which(CandidateList[k])]

GeneratorChild == [kind |-> "generator", cand |-> 0, exe |-> python_exe]

\* -------------------------------------------------------------------- Init
Init ==
    /\ sysExecutable = RunningPath
    /\ pathVersion \in [Paths -> Versions]
    /\ whichMap \in [CandidateNames -> Paths \cup {None}]
    /\ pc = "start"
    /\ idx = 1
    /\ python_exe = None
    /\ result = NoCode
    /\ alive = {}
    /\ spawned = <<>>
    /\ probeRc = [k \in 1..Len(CandidateList) |-> NoCode]
    /\ error = None
    /\ exitStatus = NoCode

\* ----------------------------------------------------------------- actions
\* lines 16-17: the running interpreter qualifies, return sys.executable.
ReturnRunning ==
    /\ pc = "start"
    /\ version_ok
    /\ python_exe' = sysExecutable
    /\ pc' = "dispatch"
    /\ UNCHANGED <<env, idx, result, alive, spawned, probeRc, error, exitStatus>>

\* line 16 false: enter the for loop of line 19.
EnterLoop ==
    /\ pc = "start"
    /\ ~version_ok
    /\ pc' = "loop"
    /\ UNCHANGED <<env, idx, python_exe, result, alive, spawned, probeRc,
                   error, exitStatus>>

\* lines 20-22: unresolved, or resolved to the running interpreter: continue.
Skip ==
    /\ pc = "loop"
    /\ idx <= Len(CandidateList)
    /\ SkipCandidate(which(CandidateList[idx]))
    /\ idx' = NextCandidate(idx)
    /\ UNCHANGED <<env, pc, python_exe, result, alive, spawned, probeRc,
                   error, exitStatus>>

\* lines 24-27: subprocess.run spawns the probe child.
SpawnProbe ==
    /\ pc = "loop"
    /\ idx <= Len(CandidateList)
    /\ ~SkipCandidate(which(CandidateList[idx]))
    /\ alive' = alive \cup {ProbeChild(idx)}
    /\ spawned' = Append(spawned, ProbeChild(idx))
    /\ result' = NoCode
    /\ pc' = "probing"
    /\ UNCHANGED <<env, idx, python_exe, probeRc, error, exitStatus>>

\* lines 24-27: subprocess.run cannot execute the path and raises OSError,
\* which nothing catches: the launcher dies with a traceback.
SpawnProbeFails ==
    /\ pc = "loop"
    /\ idx <= Len(CandidateList)
    /\ ~SkipCandidate(which(CandidateList[idx]))
    /\ error' = "OSError"
    /\ exitStatus' = Code(UncaughtExceptionStatus)
    /\ pc' = "raised"
    /\ UNCHANGED <<env, idx, python_exe, result, alive, spawned, probeRc>>

\* The probe child runs the inline script and exits.
ProbeExit ==
    \E child \in alive :
        /\ child.kind = "probe"
        /\ alive' = alive \ {child}
        /\ probeRc' = [probeRc EXCEPT ![child.cand] = Code(ProbeScriptExit(child.exe))]
        /\ result' = IF pc = "probing" /\ child = ProbeChild(idx)
                        THEN Code(ProbeScriptExit(child.exe)) ELSE result
        /\ UNCHANGED <<env, pc, idx, python_exe, spawned, error, exitStatus>>

\* lines 28-29: subprocess.run has returned; accept the candidate or go on.
ProbeReturn ==
    /\ pc = "probing"
    /\ RunReturns(ProbeChild(idx))
    /\ IF ProbeAccepts(result)
          THEN /\ python_exe' = which(CandidateList[idx])
               /\ pc' = "dispatch"
               /\ idx' = idx
          ELSE /\ python_exe' = python_exe
               /\ pc' = "loop"
               /\ idx' = NextCandidate(idx)
    /\ UNCHANGED <<env, result, alive, spawned, probeRc, error, exitStatus>>

\* lines 31-34: the list is exhausted, raise RuntimeError (uncaught).
Exhausted ==
    /\ pc = "loop"
    /\ idx > Len(CandidateList)
    /\ error' = "RuntimeError"
    /\ exitStatus' = Code(UncaughtExceptionStatus)
    /\ pc' = "raised"
    /\ UNCHANGED <<env, idx, python_exe, result, alive, spawned, probeRc>>

\* lines 43-47: subprocess.run spawns the generator under python_exe.
SpawnGenerator ==
    /\ pc = "dispatch"
    /\ alive' = alive \cup {GeneratorChild}
    /\ spawned' = Append(spawned, GeneratorChild)
    /\ result' = NoCode
    /\ pc' = "generating"
    /\ UNCHANGED <<env, idx, python_exe, probeRc, error, exitStatus>>

\* lines 43-47: the spawn of the generator raises OSError (uncaught).
SpawnGeneratorFails ==
    /\ pc = "dispatch"
    /\ error' = "OSError"
    /\ exitStatus' = Code(UncaughtExceptionStatus)
    /\ pc' = "raised"
    /\ UNCHANGED <<env, idx, python_exe, result, alive, spawned, probeRc>>

\* The generator child ends: it exits, or a signal kills it.
GeneratorExit ==
    \E child \in alive : \E rc \in GenReturnCodes :
        /\ child.kind = "generator"
        /\ alive' = alive \ {child}
        /\ result' = Code(rc)
        /\ UNCHANGED <<env, pc, idx, python_exe, spawned, probeRc, error,
                       exitStatus>>

\* lines 48 and 52: return result.returncode; raise SystemExit(main()).
MainReturn ==
    /\ pc = "generating"
    /\ RunReturns(GeneratorChild)
    /\ exitStatus' = Code(SystemExitStatus(result))
    /\ pc' = "exited"
    /\ UNCHANGED <<env, idx, python_exe, result, alive, spawned, probeRc, error>>

Next ==
    \/ ReturnRunning
    \/ EnterLoop
    \/ Skip
    \/ SpawnProbe
    \/ SpawnProbeFails
    \/ ProbeExit
    \/ ProbeReturn
    \/ Exhausted
    \/ SpawnGenerator
    \/ SpawnGeneratorFails
    \/ GeneratorExit
    \/ MainReturn

Spec == Init /\ [][Next]_vars

\* ------------------------------------------------- vocabulary of the claims
Terminal == pc \in {"exited", "raised"}

\* python_for_generator() is over: it returned or it raised.
ResolutionOver == pc \in {"dispatch", "generating", "exited"} \/ pc = "raised"

Probes == {k \in 1..Len(spawned) : spawned[k].kind = "probe"}

Generators == {k \in 1..Len(spawned) : spawned[k].kind = "generator"}

\* The running interpreter is at least 3.10: major first, then minor.
RunningQualifies ==
    \/ pathVersion[sysExecutable][1] > 3
    \/ pathVersion[sysExecutable][1] = 3 /\ pathVersion[sysExecutable][2] >= 10

\* The binary at path p is at least 3.10.
PathQualifies(p) ==
    \/ pathVersion[p][1] > 3
    \/ pathVersion[p][1] = 3 /\ pathVersion[p][2] >= 10

\* Candidate k is on the search path, is not the running interpreter, and
\* is at least 3.10.
CandidateQualifies(k) ==
    /\ whichMap[CandidateList[k]] # None
    /\ whichMap[CandidateList[k]] # sysExecutable
    /\ PathQualifies(whichMap[CandidateList[k]])

QualifyingCandidates == {k \in 1..Len(CandidateList) : CandidateQualifies(k)}

FirstQualifying ==
    CHOOSE k \in QualifyingCandidates : \A j \in QualifyingCandidates : k <= j

\* ------------------------------------------------------------------ claims
\* C1: a generator is spawned only under an interpreter that is at least
\* 3.10, namely the running interpreter when version_ok() holds or a candidate
\* whose probe exited 0; a run that found no such interpreter ends in an
\* uncaught error without any generator spawn.
C1_GeneratorOnlyUnderQualifying ==
    /\ \A g \in Generators :
          /\ PathQualifies(spawned[g].exe)
          /\ \/ RunningQualifies /\ spawned[g].exe = sysExecutable
             \/ \E k \in 1..Len(CandidateList) :
                   /\ whichMap[CandidateList[k]] = spawned[g].exe
                   /\ probeRc[k] = Code(0)
    /\ (Terminal /\ python_exe = None) =>
          (pc = "raised" /\ error # None /\ Generators = {})

C1_Witness ==
    /\ ~RunningQualifies
    /\ Generators # {}
    /\ \E k \in 2..Len(CandidateList) : probeRc[k] = Code(0) /\ probeRc[1] = Code(1)

\* C2: when the running interpreter is too old and some candidate resolves to
\* another path holding an interpreter >= 3.10, python_for_generator returns
\* the path of the first such candidate of the list.
C2_ReturnsFirstQualifying ==
    (ResolutionOver /\ ~RunningQualifies /\ QualifyingCandidates # {}) =>
        python_exe = whichMap[CandidateList[FirstQualifying]]

\* C3: when the running interpreter is at least 3.10, python_for_generator
\* returns sys.executable, spawns no probe, and the search path is not
\* consulted (the loop is never entered).
C3_RunningInterpreterFastPath ==
    (RunningQualifies /\ pc # "start") =>
        /\ python_exe = sysExecutable
        /\ Probes = {}
        /\ idx = 1
        /\ pc # "loop" /\ pc # "probing"
        /\ \A k \in 1..Len(CandidateList) : probeRc[k] = NoCode

C3_Witness ==
    /\ pathVersion[sysExecutable] = <<4, 0>>
    /\ pc = "exited"
    /\ \E k \in 1..Len(CandidateList) : CandidateQualifies(k)

\* C4: a probe is spawned only for a candidate that resolved to a path other
\* than the running interpreter's; a candidate resolving to the running
\* (too old) interpreter is never probed and never returned.
C4_ProbeOnlyResolvedOther ==
    /\ \A k \in Probes :
          /\ whichMap[CandidateList[spawned[k].cand]] # None
          /\ whichMap[CandidateList[spawned[k].cand]] # sysExecutable
          /\ spawned[k].exe = whichMap[CandidateList[spawned[k].cand]]
    /\ \A k \in 1..Len(CandidateList) :
          whichMap[CandidateList[k]] \in {None, sysExecutable} =>
              probeRc[k] = NoCode
    /\ (~RunningQualifies /\ python_exe # None) => python_exe # sysExecutable

C4_Witness ==
    /\ ~RunningQualifies
    /\ whichMap[CandidateList[1]] = sysExecutable
    /\ whichMap[CandidateList[2]] = None
    /\ Probes # {}
    /\ python_exe # None

\* C5: when the running interpreter is too old and no candidate qualifies,
\* the run ends with RuntimeError, a nonzero status and no generator spawn.
C5_NoQualifyingIsRuntimeError ==
    (Terminal /\ ~RunningQualifies /\ QualifyingCandidates = {}) =>
        /\ error = "RuntimeError"
        /\ exitStatus # Code(0)
        /\ Generators = {}

\* C6: when the generator ran and exited with a status in 0..255, the
\* launcher's exit status is exactly that status.
C6_ExitStatusForwarded ==
    (pc = "exited" /\ result # NoCode /\ result[1] \in 0..255) =>
        /\ Generators # {}
        /\ exitStatus = result

C6_Witness ==
    /\ pc = "exited"
    /\ result = Code(255)
    /\ exitStatus = Code(255)
    /\ Generators # {}

\* C7: a probe that cannot be spawned or exits nonzero only disqualifies its
\* candidate; resolution fails only with RuntimeError, and only after the
\* whole list was tried.
C7_ProbeFailureAbsorbed ==
    /\ \A k \in 1..Len(CandidateList) :
          probeRc[k] \notin {NoCode, Code(0)} =>
              \/ idx = k /\ pc = "probing"
              \/ idx > k
    /\ (pc = "raised" /\ python_exe = None) =>
          (error = "RuntimeError" /\ idx > Len(CandidateList))

\* C8: the children spawned in one run (probes and generator) number at
\* most two.
C8_AtMostTwoChildren == Len(spawned) <= 2

\* C8 amended: the children spawned in one run number at most five, one
\* probe per candidate of the list and one generator.
C8_AtMostFiveChildren ==
    /\ Len(spawned) <= 5
    /\ Cardinality(Probes) <= 4
    /\ Cardinality(Generators) <= 1

C8_Witness == Len(spawned) = 5

\* C9: children never overlap: at most one is alive; every child but the
\* latest has exited; probes are spawned in list order; no probe follows a
\* probe that exited 0; the generator comes last, at most once, and only
\* after resolution returned.
C9_ChildrenSequential ==
    /\ Cardinality(alive) <= 1
    /\ \A k \in 1..Len(spawned) : k < Len(spawned) => spawned[k] \notin alive
    /\ \A j \in Probes : \A k \in Probes :
          j < k => /\ spawned[j].cand < spawned[k].cand
                   /\ probeRc[spawned[j].cand] \notin {NoCode, Code(0)}
    /\ \A g \in Generators : g = Len(spawned) /\ python_exe # None
    /\ Cardinality(Generators) <= 1
    /\ pc \in {"start", "loop", "probing"} => Generators = {}

C9_Witness ==
    /\ Len(spawned) >= 3
    /\ spawned[Len(spawned)].kind = "generator"
    /\ spawned[Len(spawned)] \in alive

\* C10: a finished run has one of two outcomes: it exited with the
\* generator's status after exactly one generator spawn, or it failed with
\* RuntimeError without any generator spawn; each candidate is probed at
\* most once, so at most four probes.
C10_TwoOutcomes ==
    /\ Terminal =>
          \/ /\ pc = "exited"
             /\ Cardinality(Generators) = 1
             /\ result # NoCode
             /\ exitStatus = Code(result[1] % 256)
          \/ /\ pc = "raised"
             /\ error = "RuntimeError"
             /\ Generators = {}
    /\ \A j \in Probes : \A k \in Probes :
          spawned[j].cand = spawned[k].cand => j = k
    /\ Cardinality(Probes) <= 4
====
